---- MODULE Spec2Model ----
(***************************************************************************)
(* fuddly, fuzzfmk/monitor.py: the probe workers (ProbeUser,               *)
(* BlockingProbeUser) and the Monitor that drives them.                    *)
(*                                                                         *)
(* One controller thread calls the Monitor API; every started actor owns   *)
(* one worker thread.  Threads communicate through threading.Event flags   *)
(* only, so each step below reads or writes the flags named by one line of *)
(* the source, and steps of different threads interleave freely.           *)
(***************************************************************************)
EXTENDS Integers, Sequences, FiniteSets, TLC

\* ------------------------------------------------------------ bounds
\* Seconds the controller can measure inside one wait_until_armed() call.
MaxElapsed == 1
\* The budget of wait_until_armed() is followed up to ProbeUserTimeout + MaxGrow.
MaxGrow == 2

\* ------------------------------------------------------------ constants
\* ProbeUser.timeout = 10.0
ProbeUserTimeout == 10

\* Probe classes of the project (the registry key is the class name).
ProbeNames == {"ProbeA", "ProbeB"}

\* The registrations the project's decorators perform, probe(project) and
\* blocking_probe(project, after_feedback_retrieval): a blocking probe,
\* registered in either release mode, and a plain probe.
MixedInputs ==
    { [name |-> "ProbeA", blocking |-> TRUE,  afr |-> FALSE],
      [name |-> "ProbeA", blocking |-> TRUE,  afr |-> TRUE],
      [name |-> "ProbeB", blocking |-> FALSE, afr |-> FALSE] }

\* A project with two blocking probes, one of each release mode.
PairInputs ==
    { [name |-> "ProbeA", blocking |-> TRUE,  afr |-> FALSE],
      [name |-> "ProbeB", blocking |-> TRUE,  afr |-> TRUE] }

\* A blocking probe and a plain probe.
StatusInputs ==
    { [name |-> "ProbeA", blocking |-> TRUE,  afr |-> FALSE],
      [name |-> "ProbeB", blocking |-> FALSE, afr |-> FALSE] }

\* Codes a ProbeStatus carries: negative = target degraded.
StatusCodes == {-1, 0, 1}
\* The probes of a healthy target return the nominal code only.
NominalCodes == {0}

\* self.probe_users has no entry for the name.
NoUser == [blocking |-> FALSE, afr |-> FALSE, present |-> FALSE]
\* Monitor._target_status = None; a cached value v is <<v>>.
None == << >>

Min(a, b) == IF a <= b THEN a ELSE b

VARIABLES
    \* Monitor
    probe_users,      \* name -> actor record (NoUser when unregistered)
    enable,           \* Monitor.__enable
    target_status,    \* Monitor._target_status: None or <<-1>> / <<1>>
    \* actors
    stop_event, arm_event, armed_event, blocking_event, continue_event,
    pc,               \* position of the actor's worker thread
    status,           \* probe.status code
    \* controller thread
    cpc,              \* position of the controller
    todo, cur,        \* actors do_before_sending_data() still waits for
    timeout, elapsed, \* locals of wait_until_armed()
    \* history of the run (read by the properties only)
    armedCycle,       \* during do_before_sending_data: n signalled armed since
                      \* the data-ready signal of this call
    relFresh,         \* n's pending release was signalled after the last data-ready
    relBy,            \* the hook that set n's pending blocking-release signal
    cycArmed,         \* arm() returned in the worker's current cycle
    consumed,         \* the release the current cycle consumed: <<hook, fresh>>
    errWait,          \* do_on_error() ran while n waited for its release
    errOnly,          \* ... and no release signal was or has become pending
    staleErr,         \* in the current cycle: the error signal set now predates
                      \* the release wait
    readSince,        \* value read from target_status since the last reset
    \* output of the program
    exit_context,     \* how n's worker ended its run: the context its
                      \* _handle_exception printed, "returned", or "-" (not ended)
    stuck,            \* actors the running stop_all_probes() reported as stuck
    join_timeouts     \* timeouts stop_all_probes() handed to join(), in order

monitorVars == << probe_users, enable, target_status >>
eventVars   == << stop_event, arm_event, armed_event, blocking_event, continue_event >>
workerVars  == << pc, status >>
waitVars    == << todo, cur, timeout, elapsed >>
ghostVars   == << armedCycle, relFresh, relBy, cycArmed, consumed, errWait, errOnly,
                  staleErr, readSince >>

outVars     == << exit_context, stuck, join_timeouts >>

vars == << monitorVars, eventVars, workerVars, cpc, waitVars, ghostVars, outVars >>

\* ------------------------------------------------------------ actor helpers
Registered(n) == probe_users[n].present
IsBlocking(n) == probe_users[n].present /\ probe_users[n].blocking
BlockingUsers == { n \in ProbeNames : IsBlocking(n) }
\* BlockingProbeUser.after_feedback_retrieval
after_feedback_retrieval(n) == probe_users[n].afr

\* ProbeUser.is_alive
is_alive(n) == pc[n] \notin {"nothread", "exited"}
\* A buggy _go_on: the cancellation flag is not read.
go_on_Ignored(n) == TRUE
\* ProbeUser._go_on
go_on(n) == ~stop_event[n]
\* ProbeUser.is_stuck
is_stuck(n) == is_alive(n) /\ ~go_on(n)

\* The hook that releases actor n.
ReleaseHook(n) ==
    IF after_feedback_retrieval(n) THEN "do_after_timeout" ELSE "do_after_sending_data"

AllFalse == [n \in ProbeNames |-> FALSE]
AllDash  == [n \in ProbeNames |-> "-"]
\* No release signal consumed.
NoRelease == << "-", FALSE >>

Init ==
    /\ probe_users = [n \in ProbeNames |-> NoUser]
    /\ enable = TRUE
    /\ target_status = None
    /\ stop_event = AllFalse
    /\ arm_event = AllFalse
    /\ armed_event = AllFalse
    /\ blocking_event = AllFalse
    /\ continue_event = AllFalse
    /\ pc = [n \in ProbeNames |-> "nothread"]
    /\ status = [n \in ProbeNames |-> 0]
    /\ cpc = "idle"
    /\ todo = {}
    /\ cur = "-"
    /\ timeout = ProbeUserTimeout
    /\ elapsed = 0
    /\ armedCycle = AllFalse
    /\ relFresh = AllFalse
    /\ relBy = AllDash
    /\ cycArmed = AllFalse
    /\ consumed = [n \in ProbeNames |-> NoRelease]
    /\ errWait = AllFalse
    /\ errOnly = AllFalse
    /\ staleErr = AllFalse
    /\ readSince = 0
    /\ exit_context = AllDash
    /\ stuck = {}
    /\ join_timeouts = << >>

\* ------------------------------------------------------------ Monitor.add_probe
\* What add_probe(p) returns or raises.  On a registered name the code runs
\* "raise AlreadyExistingProbeError(probe.__class_.__name__)": evaluating the
\* argument fails first, since the attribute is spelled __class__.
AddProbeResult(p) ==
    IF Registered(p.name) THEN "AttributeError" ELSE "None"

\* Monitor.add_probe
AddProbe(p) ==
    /\ cpc = "idle"
    /\ IF AddProbeResult(p) = "None"
         THEN probe_users' = [probe_users EXCEPT ![p.name] =
                  [blocking |-> p.blocking, afr |-> p.blocking /\ p.afr, present |-> TRUE]]
         ELSE UNCHANGED probe_users
    /\ UNCHANGED << enable, target_status, eventVars, workerVars,
                    cpc, waitVars, ghostVars >>
    /\ UNCHANGED outVars

\* Monitor.enable_hooks
EnableHooks ==
    /\ cpc = "idle"
    /\ enable' = TRUE
    /\ UNCHANGED << probe_users, target_status, eventVars, workerVars,
                    cpc, waitVars, ghostVars >>
    /\ UNCHANGED outVars

\* Monitor.disable_hooks
DisableHooks ==
    /\ cpc = "idle"
    /\ enable' = FALSE
    /\ UNCHANGED << probe_users, target_status, eventVars, workerVars,
                    cpc, waitVars, ghostVars >>
    /\ UNCHANGED outVars

\* ------------------------------------------------------------ actor methods
\* ProbeUser._clear / BlockingProbeUser._clear, as the events after the call
ClearEvents(n) ==
    /\ stop_event' = [stop_event EXCEPT ![n] = FALSE]
    /\ IF IsBlocking(n)
         THEN /\ arm_event' = [arm_event EXCEPT ![n] = FALSE]
              /\ armed_event' = [armed_event EXCEPT ![n] = FALSE]
              /\ blocking_event' = [blocking_event EXCEPT ![n] = FALSE]
              /\ continue_event' = [continue_event EXCEPT ![n] = FALSE]
         ELSE UNCHANGED << arm_event, armed_event, blocking_event, continue_event >>

\* ProbeUser.stop / BlockingProbeUser.stop (stop, then notify_error)
ActorStop(n) ==
    /\ stop_event' = [stop_event EXCEPT ![n] = TRUE]
    /\ IF IsBlocking(n)
         THEN continue_event' = [continue_event EXCEPT ![n] = TRUE]
         ELSE UNCHANGED continue_event

\* A buggy start(): the is_alive() test is missing.
StartRaises_NoCheck(n) == FALSE

\* ProbeUser.start: "if self.is_alive(): raise RuntimeError"
StartRaises(n) == is_alive(n)

\* ProbeUser.start, the part after the test: _clear() and a fresh thread
ProbeUserStart(n) ==
    /\ ClearEvents(n)
    /\ pc' = [pc EXCEPT ![n] = "start_hook"]
    /\ relBy' = [relBy EXCEPT ![n] = "-"]
    /\ relFresh' = [relFresh EXCEPT ![n] = FALSE]
    /\ staleErr' = [staleErr EXCEPT ![n] = FALSE]
    /\ cycArmed' = [cycArmed EXCEPT ![n] = FALSE]
    /\ consumed' = [consumed EXCEPT ![n] = NoRelease]
    /\ errWait' = [errWait EXCEPT ![n] = FALSE]
    /\ errOnly' = [errOnly EXCEPT ![n] = FALSE]
    /\ exit_context' = [exit_context EXCEPT ![n] = "-"]
    /\ UNCHANGED << status, armedCycle, readSince >>

\* What Monitor.start_probe(n) returns: False when start() raised, else True
\* (also for a name that is not registered).
StartProbeResult(n) ==
    IF Registered(n) /\ StartRaises(n) THEN "False" ELSE "True"

\* Monitor.start_probe
StartProbe(n) ==
    /\ cpc = "idle"
    /\ IF Registered(n) /\ ~StartRaises(n)
         THEN ProbeUserStart(n)
         ELSE UNCHANGED << eventVars, workerVars, ghostVars, exit_context >>
    /\ UNCHANGED << monitorVars, cpc, waitVars, stuck, join_timeouts >>

\* What Monitor.configure_probe(n, args) returns or raises: the lookup of an
\* unregistered name raises KeyError, which is caught ("return False"); on a
\* registered name the call "self.probe_users[...].configure(*args)" finds no
\* attribute configure on ProbeUser or BlockingProbeUser and raises
\* AttributeError, which is not caught.
ConfigureProbeResult(n) ==
    IF Registered(n) THEN "AttributeError" ELSE "False"

\* What Monitor.stop_probe(n) returns or raises: on a registered name join() is
\* called without its timeout argument and raises TypeError.
StopProbeResult(n) ==
    IF Registered(n) THEN "TypeError" ELSE "None"

\* Monitor.stop_probe: stop() on the actor, then the call of join()
StopProbe(n) ==
    /\ cpc = "idle"
    /\ IF Registered(n)
         THEN ActorStop(n)
         ELSE UNCHANGED << stop_event, continue_event >>
    /\ UNCHANGED << monitorVars, arm_event, armed_event, blocking_event, workerVars,
                    cpc, waitVars, ghostVars >>
    /\ UNCHANGED outVars

\* ------------------------------------------------------------ the worker thread
\* What the console shows of the end of a worker's run: the context printed
\* by _handle_exception, or nothing when _run returned after the stop hook.
ExitContext(from) ==
    CASE from = "start_hook" -> "during start()"
      [] from = "arm"        -> "during arm()"
      [] from = "main"       -> "during main()"
      [] OTHER               -> "returned"

\* ProbeUser._run / BlockingProbeUser._run: probe._start() returns (None or a status)
WorkerStart(n, Codes) ==
    /\ pc[n] = "start_hook"
    /\ \/ UNCHANGED status  \* "if status is not None" fails
       \/ \E s \in Codes : status' = [status EXCEPT ![n] = s]
    /\ pc' = [pc EXCEPT ![n] = "loop"]
    /\ UNCHANGED << monitorVars, eventVars, cpc, waitVars,
                    ghostVars >>
    /\ UNCHANGED outVars

\* probe._start() raises: _handle_exception, return
WorkerStartRaise(n) ==
    /\ pc[n] = "start_hook"
    /\ pc' = [pc EXCEPT ![n] = "exited"]
    /\ UNCHANGED << monitorVars, eventVars, status, cpc, waitVars,
                    ghostVars >>
    /\ exit_context' = [exit_context EXCEPT ![n] = ExitContext("start_hook")]
    /\ UNCHANGED << stuck, join_timeouts >>

\* A buggy loop exit: the thread ends without probe._stop().
AfterLoopTest_NoStopHook(n) ==
    IF go_on(n) THEN (IF IsBlocking(n) THEN "wdr" ELSE "main")
    ELSE "exited"

\* Where the test of "while self._go_on():" sends the worker: into the body
\* (main() of a plain actor, _wait_for_data_ready() of a blocking one), or
\* past the loop to "self._probe._stop(*args, **kwargs)"
AfterLoopTest(n) ==
    IF go_on(n) THEN (IF IsBlocking(n) THEN "wdr" ELSE "main")
    ELSE "stop_hook"

\* "while self._go_on():" of either _run
WorkerLoop(n) ==
    /\ pc[n] = "loop"
    /\ pc' = [pc EXCEPT ![n] = AfterLoopTest(n)]
    /\ cycArmed' = [cycArmed EXCEPT ![n] = FALSE]
    /\ consumed' = [consumed EXCEPT ![n] = NoRelease]
    /\ errWait' = [errWait EXCEPT ![n] = FALSE]
    /\ errOnly' = [errOnly EXCEPT ![n] = FALSE]
    /\ staleErr' = [staleErr EXCEPT ![n] = FALSE]
    /\ UNCHANGED << monitorVars, eventVars, status, cpc, waitVars,
                    armedCycle, relFresh, relBy, readSince >>
    /\ UNCHANGED outVars

\* _wait_for_data_ready: "while not self._arm_event.is_set()" and, when set,
\* "self._arm_event.clear(); return True"
WorkerDataReady(n) ==
    /\ pc[n] = "wdr"
    /\ IF arm_event[n]
         THEN /\ arm_event' = [arm_event EXCEPT ![n] = FALSE]
              /\ pc' = [pc EXCEPT ![n] = "arm"]
         ELSE /\ pc' = [pc EXCEPT ![n] = "wdr_goon"]
              /\ UNCHANGED arm_event
    /\ UNCHANGED << monitorVars, stop_event, armed_event, blocking_event, continue_event,
                    status, cpc, waitVars, ghostVars >>
    /\ UNCHANGED outVars

\* A buggy wait: the cancellation is not tested while awaiting data-ready.
DataReadyGiveUp_Never(n) == FALSE

\* _wait_for_data_ready: "if not self._go_on(): return False"
DataReadyGiveUp(n) == ~go_on(n)

\* _wait_for_data_ready: "if not self._go_on(): return False", else wait(1)
WorkerDataReadyPoll(n) ==
    /\ pc[n] = "wdr_goon"
    /\ pc' = [pc EXCEPT ![n] = IF DataReadyGiveUp(n) THEN "loop" ELSE "wdr"]
    /\ UNCHANGED << monitorVars, eventVars, status, cpc, waitVars,
                    ghostVars >>
    /\ UNCHANGED outVars

\* probe.arm() returns, "self._notify_armed()", and _wait_for_blocking begins
WorkerArm(n) ==
    /\ pc[n] = "arm"
    /\ armed_event' = [armed_event EXCEPT ![n] = TRUE]
    /\ pc' = [pc EXCEPT ![n] = "wfb"]
    /\ armedCycle' = [armedCycle EXCEPT ![n] = (cpc # "idle")]
    /\ cycArmed' = [cycArmed EXCEPT ![n] = TRUE]
    /\ staleErr' = [staleErr EXCEPT ![n] = continue_event[n]]
    /\ UNCHANGED << monitorVars, stop_event, arm_event, blocking_event, continue_event,
                    status, cpc, waitVars,
                    relFresh, relBy, consumed, errWait, errOnly, readSince >>
    /\ UNCHANGED outVars

\* A buggy handler: the armed signal is forgotten when arm() raises.
ArmRaiseSignal_Forgotten(before) == before

\* _run, "except:" of arm(): "self._notify_armed()" sets the armed signal
ArmRaiseSignal(before) == TRUE

\* probe.arm() raises: _handle_exception, "self._notify_armed(); return"
WorkerArmRaise(n) ==
    /\ pc[n] = "arm"
    /\ armed_event' = [armed_event EXCEPT ![n] = ArmRaiseSignal(armed_event[n])]
    /\ pc' = [pc EXCEPT ![n] = "exited"]
    /\ armedCycle' = [armedCycle EXCEPT ![n] = (cpc # "idle")]
    /\ UNCHANGED << monitorVars, stop_event, arm_event, blocking_event, continue_event,
                    status, cpc, waitVars,
                    relFresh, relBy, cycArmed, consumed, errWait, errOnly, staleErr,
                    readSince >>
    /\ exit_context' = [exit_context EXCEPT ![n] = ExitContext("arm")]
    /\ UNCHANGED << stuck, join_timeouts >>

\* A buggy _run: main() is skipped whatever _wait_for_blocking() returned.
AfterWait_Skipped(timeout_appended) == "loop"

\* _run: "if not self._wait_for_blocking(): continue", else probe.main()
AfterWait(timeout_appended) == IF timeout_appended THEN "main" ELSE "loop"

\* _wait_for_blocking: "while not self._blocking_event.is_set()"; when the
\* signal is set: "self._blocking_event.clear(); return timeout_appended" (True)
WorkerBlockingCheck(n) ==
    /\ pc[n] = "wfb"
    /\ IF blocking_event[n]
         THEN /\ blocking_event' = [blocking_event EXCEPT ![n] = FALSE]
              /\ pc' = [pc EXCEPT ![n] = AfterWait(TRUE)]
              /\ consumed' = [consumed EXCEPT ![n] = << relBy[n], relFresh[n] >>]
              /\ relBy' = [relBy EXCEPT ![n] = "-"]
              /\ relFresh' = [relFresh EXCEPT ![n] = FALSE]
         ELSE /\ pc' = [pc EXCEPT ![n] = "wfb_cont"]
              /\ UNCHANGED << blocking_event, consumed, relBy, relFresh >>
    /\ UNCHANGED << monitorVars, stop_event, arm_event, armed_event, continue_event,
                    status, cpc, waitVars,
                    armedCycle, cycArmed, errWait, errOnly, staleErr,
                    readSince >>
    /\ UNCHANGED outVars

\* _wait_for_blocking: "timeout_appended = False" on the error path
AbortValue == FALSE

\* _wait_for_blocking: "if self._continue_event.is_set() or not self._go_on()"
WfbAbort(n) == continue_event[n] \/ ~go_on(n)

\* _wait_for_blocking, the body of the loop: either the error path
\* ("self._continue_event.clear(); timeout_appended = False; break", then
\* "self._blocking_event.clear(); return timeout_appended"), or wait(1) and
\* the test of the release signal again
WorkerBlockingPoll(n) ==
    /\ pc[n] = "wfb_cont"
    /\ IF WfbAbort(n)
         THEN /\ continue_event' = [continue_event EXCEPT ![n] = FALSE]
              /\ blocking_event' = [blocking_event EXCEPT ![n] = FALSE]
              /\ relBy' = [relBy EXCEPT ![n] = "-"]
              /\ relFresh' = [relFresh EXCEPT ![n] = FALSE]
              /\ staleErr' = [staleErr EXCEPT ![n] = FALSE]
              /\ pc' = [pc EXCEPT ![n] = AfterWait(AbortValue)]
         ELSE /\ pc' = [pc EXCEPT ![n] = "wfb"]
              /\ UNCHANGED << continue_event, blocking_event, relBy, relFresh, staleErr >>
    /\ UNCHANGED << monitorVars, stop_event, arm_event, armed_event,
                    status, cpc, waitVars,
                    armedCycle, cycArmed, consumed, errWait, errOnly,
                    readSince >>
    /\ UNCHANGED outVars

\* probe.main() returns a status, which is stored; a plain actor then sleeps in
\* _wait(delay) until the next test of the loop
WorkerMain(n, Codes) ==
    /\ pc[n] = "main"
    /\ \E s \in Codes : status' = [status EXCEPT ![n] = s]
    /\ pc' = [pc EXCEPT ![n] = "loop"]
    /\ UNCHANGED << monitorVars, eventVars, cpc, waitVars, ghostVars >>
    /\ UNCHANGED outVars

\* A buggy handler: the loop goes on after main() raised.
AfterMainRaise_Retry == "loop"

\* _run: "except: self._handle_exception('during main()'); return"
AfterMainRaise == "exited"

\* probe.main() raises: _handle_exception, return
WorkerMainRaise(n) ==
    /\ pc[n] = "main"
    /\ pc' = [pc EXCEPT ![n] = AfterMainRaise]
    /\ UNCHANGED << monitorVars, eventVars, status, cpc, waitVars, ghostVars >>
    /\ exit_context' = [exit_context EXCEPT ![n] = ExitContext("main")]
    /\ UNCHANGED << stuck, join_timeouts >>

\* probe._stop() returns or raises; the thread ends
WorkerStopHook(n) ==
    /\ pc[n] = "stop_hook"
    /\ pc' = [pc EXCEPT ![n] = "exited"]
    /\ UNCHANGED << monitorVars, eventVars, status, cpc, waitVars, ghostVars >>
    /\ exit_context' = [exit_context EXCEPT ![n] = ExitContext("stop_hook")]
    /\ UNCHANGED << stuck, join_timeouts >>

Worker(n, Codes) ==
    \/ WorkerStart(n, Codes)
    \/ WorkerStartRaise(n)
    \/ WorkerLoop(n)
    \/ WorkerDataReady(n)
    \/ WorkerDataReadyPoll(n)
    \/ WorkerArm(n)
    \/ WorkerArmRaise(n)
    \/ WorkerBlockingCheck(n)
    \/ WorkerBlockingPoll(n)
    \/ WorkerMain(n, Codes)
    \/ WorkerMainRaise(n)
    \/ WorkerStopHook(n)

\* The steps of a worker whose user code (start, arm, main, stop) returns.
WorkerReturning(n, Codes) ==
    \/ WorkerStart(n, Codes)
    \/ WorkerLoop(n)
    \/ WorkerDataReady(n)
    \/ WorkerDataReadyPoll(n)
    \/ WorkerArm(n)
    \/ WorkerBlockingCheck(n)
    \/ WorkerBlockingPoll(n)
    \/ WorkerMain(n, Codes)
    \/ WorkerStopHook(n)

\* ------------------------------------------------------------ the send-cycle hooks
\* wait_until_armed() of the next actor of the loop of do_before_sending_data
\* ("timeout = timedelta(seconds=ProbeUser.timeout); start_date = now()"), or
\* the return of do_before_sending_data when no actor is left
WuaNext(S) ==
    /\ timeout' = ProbeUserTimeout
    /\ elapsed' = 0
    /\ IF S = {}
         THEN /\ cpc' = "idle"
              /\ cur' = "-"
              /\ todo' = {}
              /\ armedCycle' = AllFalse
         ELSE /\ \E n \in S :
                   /\ cpc' = "wua_check"
                   /\ cur' = n
                   /\ todo' = S \ {n}
              /\ UNCHANGED armedCycle

\* Monitor.do_before_sending_data, up to the first wait
DoBeforeSendingData ==
    /\ cpc = "idle"
    /\ IF ~enable
         THEN UNCHANGED << target_status, arm_event, cpc, waitVars, armedCycle,
                           relFresh, readSince >>
         ELSE /\ target_status' = None
              /\ readSince' = 0
              \* notify_data_ready() on every blocking actor
              /\ arm_event' = [n \in ProbeNames |-> IsBlocking(n) \/ arm_event[n]]
              /\ relFresh' = AllFalse
              /\ WuaNext(BlockingUsers)
    /\ UNCHANGED << probe_users, enable, stop_event, armed_event, blocking_event,
                    continue_event, workerVars,
                    relBy, cycArmed, consumed, errWait, errOnly, staleErr >>
    /\ UNCHANGED outVars

\* wait_until_armed: "while not self._armed_event.is_set()" and, when it is
\* set, "self._armed_event.clear()" and the return
WuaCheck ==
    /\ cpc = "wua_check"
    /\ IF armed_event[cur]
         THEN /\ armed_event' = [armed_event EXCEPT ![cur] = FALSE]
              /\ WuaNext(todo)
         ELSE /\ cpc' = "wua_poll"
              /\ UNCHANGED << armed_event, waitVars, armedCycle >>
    /\ UNCHANGED << monitorVars, stop_event, arm_event, blocking_event, continue_event,
                    workerVars, relFresh, relBy, cycArmed, consumed, errWait, errOnly,
                    staleErr, readSince >>
    /\ UNCHANGED outVars

\* A buggy test: the cancellation test is inverted.
WuaGiveUp_Inverted(n) == ~is_alive(n) \/ go_on(n)

\* wait_until_armed: "if not self.is_alive() or not self._go_on(): break"
WuaGiveUp(n) == ~is_alive(n) \/ ~go_on(n)

\* wait_until_armed, the body of the loop up to the wait: stop() once the budget
\* is used up, then the break test
WuaPoll ==
    /\ cpc = "wua_poll"
    /\ LET expired == timeout <= 0 IN
       /\ IF expired
            THEN ActorStop(cur)
            ELSE UNCHANGED << stop_event, continue_event >>
       /\ IF expired \/ WuaGiveUp(cur)
            THEN /\ armed_event' = [armed_event EXCEPT ![cur] = FALSE]
                 /\ WuaNext(todo)
            ELSE /\ cpc' = "wua_wait"
                 /\ UNCHANGED << armed_event, waitVars, armedCycle >>
    /\ UNCHANGED << monitorVars, arm_event, blocking_event,
                    workerVars, relFresh, relBy, cycArmed, consumed, errWait, errOnly,
                    staleErr, readSince >>
    /\ UNCHANGED outVars

\* wait_until_armed: "timeout -= start_date - datetime.datetime.now()", where
\* e seconds have passed since start_date, so that start_date - now is -e
BudgetAfterWait(t, e) == t - (0 - e)

\* wait_until_armed: "self._armed_event.wait(1)" returns (at once, or after a
\* second), then the budget is updated
WuaWait ==
    /\ cpc = "wua_wait"
    /\ \E d \in {0, 1} :
         /\ elapsed + d <= MaxElapsed
         /\ elapsed' = elapsed + d
         /\ timeout' = Min(BudgetAfterWait(timeout, elapsed + d), ProbeUserTimeout + MaxGrow)
    /\ cpc' = "wua_check"
    /\ UNCHANGED << monitorVars, eventVars, workerVars, todo, cur,
                    ghostVars >>
    /\ UNCHANGED outVars

\* notify_blocking() on every actor of S, called by hook h
NotifyBlocking(S, h) ==
    /\ blocking_event' = [n \in ProbeNames |-> n \in S \/ blocking_event[n]]
    /\ relBy' = [n \in ProbeNames |->
                    IF n \in S /\ ~blocking_event[n] THEN h ELSE relBy[n]]
    /\ relFresh' = [n \in ProbeNames |-> n \in S \/ relFresh[n]]
    /\ errOnly' = [n \in ProbeNames |-> n \notin S /\ errOnly[n]]

\* do_after_sending_data: "isinstance(probe_user, BlockingProbeUser) and not
\* probe_user.after_feedback_retrieval"
AfterSendingTargets == { n \in BlockingUsers : ~after_feedback_retrieval(n) }

\* Monitor.do_after_sending_data
DoAfterSendingData ==
    /\ cpc = "idle"
    /\ IF ~enable
         THEN UNCHANGED << blocking_event, relBy, relFresh, errOnly >>
         ELSE NotifyBlocking(AfterSendingTargets, "do_after_sending_data")
    /\ UNCHANGED << monitorVars, stop_event, arm_event, armed_event, continue_event,
                    workerVars, cpc, waitVars,
                    armedCycle, cycArmed, consumed, errWait, staleErr, readSince >>
    /\ UNCHANGED outVars

\* A buggy selection: the test of after_feedback_retrieval is missing.
AfterTimeoutTargets_All == BlockingUsers

\* do_after_timeout: "isinstance(probe_user, BlockingProbeUser) and
\* probe_user.after_feedback_retrieval"
AfterTimeoutTargets == { n \in BlockingUsers : after_feedback_retrieval(n) }

\* Monitor.do_after_timeout
DoAfterTimeout ==
    /\ cpc = "idle"
    /\ IF ~enable
         THEN UNCHANGED << blocking_event, relBy, relFresh, errOnly >>
         ELSE NotifyBlocking(AfterTimeoutTargets, "do_after_timeout")
    /\ UNCHANGED << monitorVars, stop_event, arm_event, armed_event, continue_event,
                    workerVars, cpc, waitVars,
                    armedCycle, cycArmed, consumed, errWait, staleErr, readSince >>
    /\ UNCHANGED outVars

\* Positions of a worker inside the loop of _wait_for_blocking.
ReleaseWait == {"wfb", "wfb_cont"}

\* Monitor.do_on_error: notify_error() on every blocking actor
DoOnError ==
    /\ cpc = "idle"
    /\ IF ~enable
         THEN UNCHANGED << continue_event, errWait, errOnly >>
         ELSE /\ continue_event' = [n \in ProbeNames |-> IsBlocking(n) \/ continue_event[n]]
              /\ errWait' = [n \in ProbeNames |->
                    errWait[n] \/ (IsBlocking(n) /\ pc[n] \in ReleaseWait)]
              /\ errOnly' = [n \in ProbeNames |->
                    errOnly[n] \/ (IsBlocking(n) /\ pc[n] \in ReleaseWait
                                   /\ ~blocking_event[n])]
    /\ UNCHANGED << monitorVars, stop_event, arm_event, armed_event, blocking_event,
                    workerVars, cpc, waitVars,
                    armedCycle, relFresh, relBy, cycArmed, consumed, staleErr, readSince >>
    /\ UNCHANGED outVars

\* ------------------------------------------------------------ target status
\* A buggy scan: the is_alive() test is missing.
RECURSIVE Scan_NoAlive(_)
Scan_NoAlive(S) ==
    IF S = {} THEN 1
    ELSE LET n == CHOOSE x \in S : TRUE IN
         IF status[n] < 0 THEN -1 ELSE Scan_NoAlive(S \ {n})

\* Monitor.target_status, the for/else over self.probe_users.items(): -1 and
\* break at the first live actor whose status is negative, else 1
RECURSIVE Scan(_)
Scan(S) ==
    IF S = {} THEN 1
    ELSE LET n == CHOOSE x \in S : TRUE IN
         IF is_alive(n) /\ status[n] < 0 THEN -1 ELSE Scan(S \ {n})

\* A buggy aggregate: dead actors count too.
ComputeTargetStatus_NoAlive == Scan_NoAlive({ n \in ProbeNames : Registered(n) })

\* Monitor.target_status, the value computed when nothing is cached
ComputeTargetStatus == Scan({ n \in ProbeNames : Registered(n) })

\* A buggy property: the cached value is never used.
TargetStatusValue_NoCache == ComputeTargetStatus

\* Monitor.target_status: "if self._target_status is None: ..." and the return
TargetStatusValue ==
    IF target_status = None THEN ComputeTargetStatus ELSE target_status[1]

\* A read of the property Monitor.target_status
TargetStatusRead ==
    /\ cpc = "idle"
    /\ target_status' = << TargetStatusValue >>
    /\ readSince' = TargetStatusValue
    /\ UNCHANGED << probe_users, enable, eventVars, workerVars, cpc, waitVars,
                    armedCycle, relFresh, relBy, cycArmed, consumed, errWait, errOnly,
                    staleErr >>
    /\ UNCHANGED outVars

\* What Monitor.is_target_ok() returns: "return not self.target_status < 0"
IsTargetOkResult == ~(TargetStatusValue < 0)

\* Monitor.is_target_ok, which reads the property
IsTargetOk ==
    /\ cpc = "idle"
    /\ target_status' = << TargetStatusValue >>
    /\ readSince' = TargetStatusValue
    /\ UNCHANGED << probe_users, enable, eventVars, workerVars, cpc, waitVars,
                    armedCycle, relFresh, relBy, cycArmed, consumed, errWait, errOnly,
                    staleErr >>
    /\ UNCHANGED outVars

\* ------------------------------------------------------------ Monitor.stop_all_probes
\* The registry entries, in the order of self.probe_users.items().
RegisteredUsers == { n \in ProbeNames : Registered(n) }

\* What stop_all_probes leaves untouched in every step.
sapFrame == << monitorVars, arm_event, armed_event, blocking_event, workerVars,
               ghostVars, exit_context >>

\* Monitor.stop_all_probes is called (also through Monitor.stop)
StopAllProbes ==
    /\ cpc = "idle"
    /\ cpc' = "sap_stop"
    /\ todo' = RegisteredUsers
    /\ stuck' = {}
    /\ join_timeouts' = << >>
    /\ UNCHANGED << sapFrame, stop_event, continue_event, cur, timeout, elapsed >>

\* "for _, probe_user in self.probe_users.items(): probe_user.stop()", one
\* actor per step, then "timeout = timedelta(seconds=ProbeUser.timeout);
\* start_date = now()"
SapStop ==
    /\ cpc = "sap_stop"
    /\ IF todo = {}
         THEN /\ cpc' = "sap_join"
              /\ todo' = RegisteredUsers
              /\ timeout' = ProbeUserTimeout
              /\ elapsed' = 0
              /\ UNCHANGED << stop_event, continue_event >>
         ELSE /\ \E n \in todo :
                   /\ ActorStop(n)
                   /\ todo' = todo \ {n}
              /\ UNCHANGED << cpc, timeout, elapsed >>
    /\ UNCHANGED << sapFrame, cur, stuck, join_timeouts >>

\* The second loop: "timeout -= start_date - datetime.datetime.now()" and the
\* call "probe_user.join(timeout.total_seconds())" for the next actor, or the
\* return of stop_all_probes when no actor is left
SapJoin ==
    /\ cpc = "sap_join"
    /\ IF todo = {}
         THEN /\ cpc' = "idle"
              /\ cur' = "-"
              /\ timeout' = ProbeUserTimeout
              /\ elapsed' = 0
              /\ UNCHANGED << todo, join_timeouts >>
         ELSE /\ \E n \in todo :
                   /\ cur' = n
                   /\ todo' = todo \ {n}
              /\ cpc' = "sap_joining"
              /\ timeout' = BudgetAfterWait(timeout, elapsed)
              /\ join_timeouts' = Append(join_timeouts, timeout')
              /\ UNCHANGED elapsed
    /\ UNCHANGED << sapFrame, stop_event, continue_event, stuck >>

\* ProbeUser.join returns: at once or within a second when the worker is not
\* alive or ends ("if self.is_alive(): self._thread.join(timeout)"), or after
\* the whole timeout with the worker still alive
SapJoinReturn ==
    /\ cpc = "sap_joining"
    /\ IF is_alive(cur)
         THEN elapsed' = elapsed + timeout
         ELSE \E d \in {0, 1} : elapsed' = elapsed + d
    /\ cpc' = "sap_check"
    /\ UNCHANGED << sapFrame, stop_event, continue_event, todo, cur, timeout,
                    stuck, join_timeouts >>

\* A buggy test: every actor is marked stopped.
JoinedDead_Always(n) == TRUE

\* stop_all_probes: "if not probe_user.is_alive()"
JoinedDead(n) == ~is_alive(n)

\* stop_all_probes: "probe_user.notify_stop()" (the cancellation flag is
\* cleared), or the stuck-probe error is handed to fmk_ops.set_error
SapCheck ==
    /\ cpc = "sap_check"
    /\ IF JoinedDead(cur)
         THEN /\ stop_event' = [stop_event EXCEPT ![cur] = FALSE]
              /\ UNCHANGED stuck
         ELSE /\ stuck' = stuck \cup {cur}
              /\ UNCHANGED stop_event
    /\ cpc' = "sap_join"
    /\ UNCHANGED << sapFrame, continue_event, todo, cur, timeout, elapsed,
                    join_timeouts >>

Shutdown ==
    \/ StopAllProbes
    \/ SapStop
    \/ SapJoin
    \/ SapJoinReturn
    \/ SapCheck

\* ------------------------------------------------------------ specifications
\* The four hooks of a send cycle, with the wait of the first one.
Hooks ==
    \/ DoBeforeSendingData
    \/ WuaCheck
    \/ WuaPoll
    \/ WuaWait
    \/ DoAfterSendingData
    \/ DoAfterTimeout
    \/ DoOnError

\* The control surface of single actors.
Control ==
    \/ \E n \in ProbeNames : StartProbe(n)
    \/ \E n \in ProbeNames : StopProbe(n)

\* A blocking probe of either release mode and a plain probe, under every
\* Monitor call but the bulk shutdown and the reads of the target status; the
\* probes return the nominal status.
Next ==
    \/ \E p \in MixedInputs : AddProbe(p)
    \/ EnableHooks
    \/ DisableHooks
    \/ Control
    \/ Hooks
    \/ \E n \in ProbeNames : Worker(n, NominalCodes)

Spec == Init /\ [][Next]_vars

\* A blocking probe and a plain probe returning any status, with the reads of
\* the target status.
NextStatus ==
    \/ \E p \in StatusInputs : AddProbe(p)
    \/ EnableHooks
    \/ DisableHooks
    \/ Control
    \/ Hooks
    \/ \E n \in ProbeNames : Worker(n, StatusCodes)
    \/ TargetStatusRead
    \/ IsTargetOk

SpecStatus == Init /\ [][NextStatus]_vars

\* Two blocking probes, one of each release mode, with the hooks enabled.
NextPair ==
    \/ \E p \in PairInputs : AddProbe(p)
    \/ Control
    \/ Hooks
    \/ \E n \in ProbeNames : Worker(n, NominalCodes)

SpecPair == Init /\ [][NextPair]_vars

\* A blocking probe and a plain probe under the bulk shutdown, the single
\* actor control and the hooks that arm and release the blocking probe.
NextShutdown ==
    \/ \E p \in StatusInputs : AddProbe(p)
    \/ Control
    \/ DoBeforeSendingData
    \/ WuaCheck
    \/ WuaPoll
    \/ WuaWait
    \/ DoAfterSendingData
    \/ Shutdown
    \/ \E n \in ProbeNames : Worker(n, NominalCodes)

SpecShutdown == Init /\ [][NextShutdown]_vars

\* A project with one blocking probe, released after sending.
LiveInputs == { [name |-> "ProbeA", blocking |-> TRUE, afr |-> FALSE] }

\* One blocking probe whose user code returns, under the hooks of a send
\* cycle and the single actor control.  Every worker is a thread of its own
\* and each of its waits is a wait(1) in a loop, so a worker that can take a
\* step eventually takes one.
NextLive ==
    \/ \E p \in LiveInputs : AddProbe(p)
    \/ Control
    \/ DoBeforeSendingData
    \/ WuaCheck
    \/ WuaPoll
    \/ WuaWait
    \/ DoAfterSendingData
    \/ DoOnError
    \/ \E n \in ProbeNames : WorkerReturning(n, StatusCodes)

SpecLive ==
    /\ Init /\ [][NextLive]_vars
    /\ \A n \in ProbeNames : WF_vars(WorkerReturning(n, StatusCodes))

\* ------------------------------------------------------------ properties
\* The controller is inside do_before_sending_data.
InBefore == cpc # "idle"

\* C1: do_before_sending_data() signals data-ready to every blocking actor,
\* and on the step that returns from it every registered blocking actor has
\* signalled armed since that data-ready signal, or is not alive, or has its
\* cancellation requested.
C1_ReturnsOnlyWhenArmed ==
    /\ [][DoBeforeSendingData /\ enable =>
            \A n \in BlockingUsers : arm_event'[n]]_vars
    /\ [][InBefore /\ ~InBefore' =>
            \A n \in BlockingUsers :
                armedCycle[n] \/ ~is_alive(n) \/ stop_event'[n]]_vars

\* C1 witness: the call is about to return with two live, non-cancelled
\* actors that both armed during the call.
C1_Witness ==
    /\ cpc = "wua_check" /\ todo = {} /\ armed_event[cur]
    /\ Cardinality(BlockingUsers) = 2
    /\ \A n \in BlockingUsers : armedCycle[n] /\ is_alive(n) /\ ~stop_event[n]

\* C2: the remaining budget of wait_until_armed() decreases as time passes in
\* the wait loop (so that it is exhausted after ProbeUserTimeout seconds).
C2_BudgetDecreases ==
    [][cpc = "wua_wait" /\ elapsed' > elapsed => timeout' < timeout]_vars

\* C3: main() of a blocking actor runs only after the arm() of the same cycle
\* and after a release by its hook that was called later than the
\* do_before_sending_data call of the cycle; a release left over from before
\* that call never lets main() run.
C3_MainAfterCurrentRelease ==
    \A n \in BlockingUsers :
        pc[n] = "main" => cycArmed[n] /\ consumed[n] = << ReleaseHook(n), TRUE >>

\* What the code does guarantee about main() of a blocking actor: it runs
\* only after the arm() of the same cycle and after consuming a release
\* signal set by the actor's own release hook (never an error signal or a
\* cancellation); that signal may predate the do_before_sending_data call.
MainAfterArmAndRelease ==
    \A n \in BlockingUsers :
        pc[n] = "main" => cycArmed[n] /\ consumed[n][1] = ReleaseHook(n)

\* main() runs on a release left over from before the cycle.
MainOnLeftoverRelease ==
    \E n \in BlockingUsers :
        pc[n] = "main" /\ cycArmed[n] /\ consumed[n] = << ReleaseHook(n), FALSE >>

\* C4: the blocking-release signal of an actor is set only by the hook of its
\* mode (do_after_sending_data when after_feedback_retrieval is false,
\* do_after_timeout when it is true), and each hook leaves the release signal
\* of the actors of the other mode unchanged.
C4_ReleaseModeSeparation ==
    /\ [][\A n \in ProbeNames :
            ~blocking_event[n] /\ blocking_event'[n] =>
                IF after_feedback_retrieval(n) THEN DoAfterTimeout
                                               ELSE DoAfterSendingData]_vars
    /\ [][DoAfterSendingData =>
            \A n \in BlockingUsers :
                after_feedback_retrieval(n) => blocking_event'[n] = blocking_event[n]]_vars
    /\ [][DoAfterTimeout =>
            \A n \in BlockingUsers :
                ~after_feedback_retrieval(n) => blocking_event'[n] = blocking_event[n]]_vars

\* C4 witness: both actors wait for their release and only the one released
\* after sending has its signal set.
C4_Witness ==
    \E a, b \in BlockingUsers :
        /\ ~after_feedback_retrieval(a) /\ after_feedback_retrieval(b)
        /\ pc[a] \in ReleaseWait /\ pc[b] \in ReleaseWait
        /\ blocking_event[a] /\ ~blocking_event[b]

\* C5: after do_on_error() ran while a blocking actor waited in the release
\* phase, the cycle of that actor ends without main().
C5_ErrorEndsCycleWithoutMain ==
    \A n \in BlockingUsers : errWait[n] => pc[n] # "main"

\* What the code does guarantee about do_on_error(): when it ran while an
\* actor waited in the release phase with no release signal pending, and as
\* long as no release hook signals the actor, the actor leaves the wait at its
\* next polling check, its cycle ends without main(), and it goes back to
\* awaiting data-ready, or to the stop hook when its cancellation is requested.
ErrorAbortsUnlessReleased ==
    /\ [](\A n \in BlockingUsers :
            errOnly[n] => pc[n] \in {"wfb", "wfb_cont", "loop"})
    /\ [][\A n \in BlockingUsers :
            errOnly[n] /\ pc[n] = "wfb_cont" /\ pc'[n] # pc[n] => pc'[n] = "loop"]_vars
    /\ [][\A n \in BlockingUsers :
            errOnly[n] /\ pc[n] = "loop" /\ pc'[n] # pc[n] =>
                pc'[n] = IF stop_event[n] THEN "stop_hook" ELSE "wdr"]_vars

\* The error hook ended the cycle of a waiting actor.
ErrorEndedCycle ==
    \E n \in BlockingUsers : errOnly[n] /\ pc[n] = "loop" /\ ~stop_event[n]

\* C6: error signals fired before a release wait are consumed by that wait,
\* whichever way it returns: when the wait has returned through the blocking
\* release and main() runs, no error signal from before the wait is left.
C6_ErrorConsumedByNextWait ==
    \A n \in BlockingUsers : pc[n] = "main" => ~staleErr[n]

\* The aggregate of the specification: -1 when a live actor has a negative
\* status, +1 otherwise.
Aggregate ==
    IF \E n \in ProbeNames : Registered(n) /\ is_alive(n) /\ status[n] < 0
      THEN -1 ELSE 1

\* C7: a read of target_status with nothing cached returns -1 when a live
\* actor has a negative status and +1 otherwise, dead actors being ignored;
\* is_target_ok() is true exactly when that value is not negative.
C7_TargetStatusAggregate ==
    /\ [][(TargetStatusRead \/ IsTargetOk) /\ target_status = None =>
            target_status' = << Aggregate >>]_vars
    /\ [](target_status = None => (IsTargetOkResult <=> Aggregate >= 0))
    /\ [](target_status # None => (IsTargetOkResult <=> target_status[1] >= 0))

\* C7 witness: the value -1 is cached while a dead actor has a negative
\* status and a live one too.
C7_Witness ==
    /\ target_status = << -1 >>
    /\ \E n \in ProbeNames : Registered(n) /\ is_alive(n) /\ status[n] < 0
    /\ \E n \in ProbeNames : Registered(n) /\ ~is_alive(n) /\ status[n] < 0

\* C8: the cached target status changes only when do_before_sending_data()
\* resets it with the hooks enabled; a read that follows another read, with
\* no reset between them, returns the same value, and the first read after a
\* reset returns the aggregate of the current statuses.
C8_CacheResetOnlyBefore ==
    /\ [][target_status # None /\ target_status' # target_status =>
            DoBeforeSendingData /\ enable /\ target_status' = None]_vars
    /\ [][TargetStatusRead \/ IsTargetOk =>
            target_status' = << IF readSince # 0 THEN readSince ELSE Aggregate >>]_vars

\* C8 witness: the value +1 is still cached although a live actor has turned
\* negative since the read.
C8_Witness ==
    /\ target_status = << 1 >> /\ readSince = 1
    /\ \E n \in ProbeNames : Registered(n) /\ is_alive(n) /\ status[n] < 0

\* C9: start() on an actor whose worker is alive fails, start_probe returns
\* False, no second worker is created and no signal flag of the actor changes.
C9_StartWhileAliveFails ==
    /\ [](\A n \in ProbeNames :
            Registered(n) /\ is_alive(n) => StartProbeResult(n) = "False")
    /\ [][\A n \in ProbeNames :
            StartProbe(n) /\ Registered(n) /\ is_alive(n) =>
                UNCHANGED << eventVars, workerVars >>]_vars

\* C9 witness: a live worker past its start hook whose actor has flags set.
C9_Witness ==
    \E n \in BlockingUsers :
        /\ pc[n] = "wfb_cont" /\ stop_event[n] /\ continue_event[n]
        /\ StartProbeResult(n) = "False"

\* C10: add_probe() on a registered name fails with AlreadyExistingProbeError.
C10_DuplicateRaisesAlreadyExisting ==
    \A p \in MixedInputs :
        Registered(p.name) => AddProbeResult(p) = "AlreadyExistingProbeError"

\* The flags, worker and status of actor m are left as they are.
ActorUntouched(m) ==
    /\ pc'[m] = pc[m] /\ status'[m] = status[m]
    /\ stop_event'[m] = stop_event[m] /\ arm_event'[m] = arm_event[m]
    /\ armed_event'[m] = armed_event[m] /\ blocking_event'[m] = blocking_event[m]
    /\ continue_event'[m] = continue_event[m]

\* C11: when main() of a probe raises, its worker exits on that step and is
\* not alive any more, main() is not called again until a new start(), the
\* controller and the Monitor are left as they are, and so are the worker,
\* flags and status of every other actor.
C11_MainRaiseIsolated ==
    /\ [][\A n \in ProbeNames :
            WorkerMainRaise(n) =>
                /\ pc'[n] = "exited"
                /\ UNCHANGED << monitorVars, cpc, waitVars >>
                /\ \A m \in ProbeNames \ {n} : ActorUntouched(m)]_vars
    /\ [][\A n \in ProbeNames :
            exit_context[n] = "during main()" /\ pc'[n] # pc[n] =>
                pc[n] = "exited" /\ pc'[n] = "start_hook" /\ StartProbe(n)]_vars
    /\ [](\A n \in ProbeNames : exit_context[n] = "during main()" => ~is_alive(n))

\* C11 witness: the worker of one probe has ended on a raising main() while
\* the worker of the other probe is in its release wait.
C11_Witness ==
    \E n, m \in ProbeNames :
        /\ n # m /\ Registered(n) /\ Registered(m)
        /\ exit_context[n] = "during main()" /\ ~is_alive(n)
        /\ pc[m] \in ReleaseWait

\* stop_all_probes is about to return.
SapReturns == cpc = "sap_join" /\ todo = {}

\* C12, as claimed: when stop_all_probes() returns, every actor whose worker
\* has exited is marked stopped (cancellation flag cleared, not reported), and
\* every actor whose worker is alive was reported stuck and keeps its flag.
C12_ExitedAreMarkedStopped ==
    [][SapReturns /\ SapJoin =>
         \A n \in RegisteredUsers :
             IF is_alive(n) THEN n \in stuck /\ stop_event[n]
                            ELSE n \notin stuck /\ ~stop_event[n]]_vars

\* C12, amended: stop_all_probes() requests the cancellation of every actor;
\* an actor whose worker had exited when its join returned is marked stopped,
\* any other actor is reported stuck; when the call returns every actor is
\* either marked stopped (flag cleared, not alive, not stuck) or reported
\* stuck with its cancellation flag still set, and every live actor is among
\* the reported ones.
C12_JoinedDeadAreMarkedStopped ==
    /\ [][cpc = "sap_stop" /\ cpc' = "sap_join" =>
            \A n \in RegisteredUsers : stop_event[n]]_vars
    /\ [][SapCheck =>
            IF is_alive(cur) THEN cur \in stuck' /\ stop_event'[cur]
                             ELSE cur \notin stuck' /\ ~stop_event'[cur]]_vars
    /\ [][SapReturns /\ SapJoin =>
            \A n \in RegisteredUsers :
                \/ n \in stuck /\ stop_event[n]
                \/ n \notin stuck /\ ~stop_event[n] /\ ~is_alive(n) /\ ~is_stuck(n)]_vars

\* C12 witness: the call is about to return with one actor reported stuck and
\* still alive and the other one marked stopped.
C12_Witness ==
    /\ SapReturns
    /\ \E n, m \in RegisteredUsers :
          /\ n \in stuck /\ is_stuck(n)
          /\ m \notin stuck /\ ~stop_event[m] /\ pc[m] = "exited"

\* C13: the join timeouts of one stop_all_probes() call never exceed
\* ProbeUserTimeout seconds and never increase from one actor to the next.
C13_JoinBudgetShrinks ==
    \A i \in 1..Len(join_timeouts) :
        /\ join_timeouts[i] <= ProbeUserTimeout
        /\ i > 1 => join_timeouts[i] <= join_timeouts[i - 1]

\* C14: stop_probe(name) never raises to its caller.
C14_StopProbeNeverRaises ==
    \A n \in ProbeNames : StopProbeResult(n) = "None"

\* C15: start_probe(name) and configure_probe(name, args) on an unregistered
\* name return False and raise nothing.
C15_UnknownNameReturnsFalse ==
    \A n \in ProbeNames :
        ~Registered(n) =>
            StartProbeResult(n) = "False" /\ ConfigureProbeResult(n) = "False"

\* C16: stop() on an actor whose worker is not alive is a no-op: the
\* cancellation and error-release flags of the actor are the same after the
\* call as before.
C16_StopOnDeadIsNoOp ==
    [][\A n \in ProbeNames :
         StopProbe(n) /\ Registered(n) /\ ~is_alive(n) =>
             UNCHANGED << stop_event, continue_event >>]_vars

\* Actor n waits for its release, the release hook has signalled it, and
\* neither a cancellation nor an error release is set.
ReleasedCleanly(n) ==
    /\ pc[n] \in ReleaseWait /\ blocking_event[n]
    /\ ~stop_event[n] /\ ~continue_event[n]

\* C17: an armed blocking actor released after sending stays in its release
\* wait as long as no release, cancellation or error release is set; once
\* do_after_sending_data() has released it, with no cancellation and no error
\* release, its main() is eventually invoked; main() is entered only by
\* consuming the release signal (once per release), the status it returns is
\* stored, and the actor then goes back to awaiting data-ready.
C17_ReleaseLeadsToMain ==
    /\ [][\A n \in BlockingUsers :
            pc[n] \in ReleaseWait /\ pc'[n] \notin ReleaseWait =>
                \/ blocking_event[n] /\ pc'[n] = "main"
                \/ continue_event[n] \/ stop_event[n]]_vars
    /\ \A n \in ProbeNames :
          (IsBlocking(n) /\ ReleasedCleanly(n))
              ~> (pc[n] = "main" \/ stop_event[n] \/ continue_event[n])
    /\ \A n \in ProbeNames :
          (IsBlocking(n) /\ pc[n] = "main") ~> (pc[n] = "wdr" \/ stop_event[n])
    /\ [][\A n \in BlockingUsers :
            pc'[n] = "main" /\ pc[n] # "main" =>
                pc[n] = "wfb" /\ blocking_event[n] /\ ~blocking_event'[n]]_vars
    /\ [][\A n \in BlockingUsers :
            pc[n] = "main" /\ pc'[n] # "main" =>
                pc'[n] = "loop" /\ \E c \in StatusCodes : status'[n] = c]_vars

\* C17 witness: main() has run on the release of the current cycle and has
\* stored a status.
C17_Witness ==
    \E n \in BlockingUsers :
        /\ pc[n] = "loop" /\ ~stop_event[n]
        /\ consumed[n] = << "do_after_sending_data", TRUE >> /\ status[n] = 1

\* C18: stop() on a blocking actor sets the cancellation flag and the
\* error-release flag; a worker in a handshake wait leaves it at its next
\* polling check, and a live worker whose cancellation is requested
\* eventually ends, whatever the controller does afterwards.
C18_StopTerminatesWorker ==
    /\ [][\A n \in BlockingUsers :
            StopProbe(n) => stop_event'[n] /\ continue_event'[n]]_vars
    /\ [][\A n \in BlockingUsers :
            stop_event[n] /\ pc[n] \in {"wdr_goon", "wfb_cont"} /\ pc'[n] # pc[n] =>
                pc'[n] = "loop"]_vars
    /\ \A n \in ProbeNames :
          (IsBlocking(n) /\ stop_event[n] /\ is_alive(n)) ~> ~is_alive(n)

\* C18 witness: a cancelled blocking worker has left the loop and ended
\* after its stop hook.
C18_Witness ==
    \E n \in BlockingUsers :
        stop_event[n] /\ continue_event[n] /\ exit_context[n] = "returned"

\* The controller leaves wait_until_armed() of the current actor.
WaitLeft == cpc' = "idle" \/ cur' # cur

\* C19: when arm() raises, the worker sets the armed signal and ends on the
\* same step, without main() and without the stop hook; a controller waiting
\* in wait_until_armed() for an actor that ended in arm() never starts another
\* wait(1): it leaves the wait at its test of the armed signal or, when the
\* signal was already consumed, at the break test that follows; a wait(1) that
\* had begun always returns.
C19_ArmRaiseStillSignalsArmed ==
    /\ [][\A n \in BlockingUsers :
            WorkerArmRaise(n) => armed_event'[n] /\ pc'[n] = "exited"]_vars
    /\ [](\A n \in BlockingUsers :
            exit_context[n] = "during arm()" => pc[n] = "exited")
    /\ [][InBefore /\ exit_context[cur] = "during arm()" /\ WuaCheck
            => IF armed_event[cur] THEN WaitLeft ELSE cpc' = "wua_poll"]_vars
    /\ [][InBefore /\ exit_context[cur] = "during arm()" /\ WuaPoll
            => WaitLeft]_vars
    /\ [](cpc = "wua_wait" => ENABLED WuaWait)

\* C19 witness: the controller waits for an actor whose arm() has raised
\* during the call.
C19_Witness ==
    /\ cpc = "wua_check" /\ armedCycle[cur]
    /\ exit_context[cur] = "during arm()" /\ armed_event[cur] /\ ~stop_event[cur]

\* C20: within one run of a worker, plain or blocking, the start hook is the
\* first step and is entered only when the thread starts; it is left once,
\* to the loop test or, when it raises, to the end of the thread. The stop
\* hook is entered only from the loop test and exactly when that test finds
\* the actor cancelled, and it is the last step. A raise of arm() or main()
\* ends the thread directly, and the thread ends from nowhere else.
C20_HookOrdering ==
    /\ [][\A n \in ProbeNames :
            /\ (pc'[n] = "start_hook" /\ pc[n] # "start_hook")
                  => pc[n] \in {"nothread", "exited"} /\ ProbeUserStart(n)
            /\ (pc[n] = "start_hook" /\ pc'[n] # "start_hook")
                  => pc'[n] \in {"loop", "exited"}
            /\ WorkerStartRaise(n) => pc'[n] = "exited"
            /\ (pc[n] = "loop" /\ pc'[n] # "loop")
                  => pc'[n] = (IF stop_event[n] THEN "stop_hook"
                               ELSE IF IsBlocking(n) THEN "wdr" ELSE "main")
            /\ (pc'[n] = "stop_hook" /\ pc[n] # "stop_hook")
                  => pc[n] = "loop" /\ stop_event[n]
            /\ (pc[n] = "stop_hook" /\ pc'[n] # "stop_hook")
                  => pc'[n] = "exited"
            /\ (WorkerArmRaise(n) \/ WorkerMainRaise(n)) => pc'[n] = "exited"
            /\ (pc'[n] = "exited" /\ pc[n] # "exited")
                  => pc[n] \in {"start_hook", "arm", "main", "stop_hook"}
            /\ (pc'[n] = "exited" /\ pc[n] # "exited")
                  => (exit_context'[n] = "returned" <=> pc[n] = "stop_hook")]_vars
    /\ [](\A n \in ProbeNames : exit_context[n] # "-" => pc[n] = "exited")

\* C20 witness: a blocking worker and a plain one have both ended with the
\* stop hook after a cancellation.
C20_Witness ==
    /\ \E n \in BlockingUsers :
         pc[n] = "exited" /\ exit_context[n] = "returned" /\ stop_event[n]
    /\ \E n \in RegisteredUsers \ BlockingUsers :
         pc[n] = "exited" /\ exit_context[n] = "returned" /\ stop_event[n]

\* C21: the cancellation flag of an actor is cleared only on a step that
\* finds its worker not alive (the _clear() of start(), the notify_stop() of
\* the bulk shutdown); a live worker whose cancellation was requested stays
\* stuck until it has exited and its next test of the loop leads to the stop
\* hook, and a thread is started only for an actor that has no live worker.
C21_FlagKeptWhileAlive ==
    [][\A n \in ProbeNames :
         /\ (stop_event[n] /\ ~stop_event'[n]) => ~is_alive(n)
         /\ (stop_event[n] /\ ~stop_event'[n])
               => (ProbeUserStart(n) \/ (SapCheck /\ cur = n))
         /\ (is_stuck(n) /\ pc'[n] # "exited") => is_stuck(n)'
         /\ (is_stuck(n) /\ pc[n] = "loop" /\ pc'[n] # "loop") => pc'[n] = "stop_hook"
         /\ (pc'[n] = "start_hook" /\ pc[n] # "start_hook") => ~is_alive(n)]_vars

\* C21 witness: the bulk shutdown has marked an exited actor stopped while
\* another actor, reported stuck, is alive with its flag still set.
C21_Witness ==
    \E n, m \in RegisteredUsers :
        /\ cpc = "sap_join" /\ pc[n] = "exited" /\ ~stop_event[n] /\ n \notin stuck
        /\ m \in stuck /\ is_stuck(m)

\* The place of a worker within one turn of its loop, in the order of the
\* statements of _run: the waits and arm() of a blocking actor, main(), the
\* test of the loop, the stop hook, the end of the thread.
RunOrder(p) ==
    CASE p = "start_hook" -> 0
      [] p = "wdr"        -> 1
      [] p = "wdr_goon"   -> 2
      [] p = "arm"        -> 3
      [] p = "wfb"        -> 4
      [] p = "wfb_cont"   -> 5
      [] p = "main"       -> 6
      [] p = "loop"       -> 7
      [] p = "stop_hook"  -> 8
      [] OTHER            -> 9

\* The cancellation of actor n was requested and its worker is alive.
Cancelled(n) == stop_event[n] /\ is_alive(n)

\* C22: once stop() was called on an actor with a live worker, the request
\* stands until the worker has exited, and every step of the worker moves it
\* forward in the order of one turn of the loop: it never passes the test of
\* the loop again, so that it begins arm() at most once more and main() at
\* most once more, and unless user code raises it ends through the stop hook.
C22_OneMoreTurnAfterStop ==
    [][\A n \in ProbeNames :
         /\ (Cancelled(n) /\ is_alive(n)') => stop_event'[n]
         /\ (Cancelled(n) /\ pc'[n] # pc[n]) => RunOrder(pc'[n]) > RunOrder(pc[n])
         /\ (Cancelled(n) /\ pc'[n] \in {"arm", "wdr"}) => pc[n] \in {"wdr", "wdr_goon", "arm"}
         /\ (Cancelled(n) /\ pc'[n] = "exited" /\ exit_context'[n] = "returned")
               => pc[n] = "stop_hook"]_vars

\* C22 witness: cancellation is requested on a live blocking worker that
\* awaits data-ready while a data-ready signal and a release signal are
\* pending.
C22_Witness ==
    \E n \in BlockingUsers :
        Cancelled(n) /\ pc[n] = "wdr" /\ arm_event[n] /\ blocking_event[n]

====
